---- MODULE Spec2Model ----
(***************************************************************************)
(* A model of the smolkv client facade (src/src/lib.rs), its error         *)
(* taxonomy (src/src/errors.rs) and the command-line consumer              *)
(* (src/examples/cli.rs).                                                  *)
(*                                                                         *)
(* Strings are sequences of one-character strings.  A few multi-character  *)
(* literals of the source ("http://", "api", "_batch", "?id=", ...) are    *)
(* kept as single elements: no operation of the client looks inside them.  *)
(* Option<T> is a sequence of length 0 (None) or 1 (Some).                 *)
(***************************************************************************)
EXTENDS Integers, Sequences, FiniteSets, TLC

\* ------------------------------------------------------------------ bounds
MaxLen == 2       \* longest collection name, key or path drawn as an input
NumCallers == 2   \* call sites that may hold a call on the shared facade
MaxElems == 1     \* longest JSON array drawn as a stored value
MaxPath == 5      \* longest <collection>/<key> path given on the command line
MaxLines == 2     \* most lines the server writes to one change feed

\* ----------------------------------------------------------------- strings
Sep == "/"
Char == {Sep, "a", "b"}

RECURSIVE StrUpTo(_)
StrUpTo(n) ==
    IF n = 0 THEN {<<>>}
    ELSE LET shorter == StrUpTo(n - 1)
         IN  shorter \cup {Append(s, ch) : s \in shorter, ch \in Char}

Strings == StrUpTo(MaxLen)
None == <<>>
Some(x) == <<x>>

\* str::trim_start_matches('/'): every leading separator is removed.
RECURSIVE trim_start_matches(_)
trim_start_matches(s) ==
    IF s # <<>> /\ Head(s) = Sep THEN trim_start_matches(Tail(s)) ELSE s

\* A bug a maintainer could write: strip_prefix('/') removes one separator.
strip_one_prefix(s) == IF s # <<>> /\ Head(s) = Sep THEN Tail(s) ELSE s

\* The path handed to format!: the leading separators stripped.
TrimPath(path) == trim_start_matches(path)

\* A url that joins the path as the caller gave it.
url_untrimmed(base, path) == base \o <<Sep, "api", Sep>> \o path

\* SmolKv::url: format!("{}/api/{}", self.endpoint, path)
url(base, path) == base \o <<Sep, "api", Sep>> \o TrimPath(path)

\* format!("{collection}/{key}")
KeyPath(collection, key) == collection \o <<Sep>> \o key

\* format!("{collection}/<suffix>")
SubPath(collection, suffix) == collection \o <<Sep, suffix>>

\* format!("{}/backups/{collection}-{backup_id}.sst", self.endpoint)
backup_file_url(base, collection, backup_id) ==
    base \o <<Sep, "backups", Sep>> \o collection \o <<"-">> \o backup_id \o <<".sst">>

\* Endpoints: the scheme is one element, so "after the scheme" is Tail.
Scheme == "http://"
Endpoints == {<<Scheme, "h">>, <<Scheme, "h", Sep>>}

IsQueryMark(ch) == ch \in {"?id=", "?backup_id="}

\* Url::path() of the parsed URL: what follows the authority, up to the query.
RECURSIVE UpToQuery(_)
UpToQuery(s) ==
    IF s = <<>> \/ IsQueryMark(Head(s)) THEN <<>>
    ELSE <<Head(s)>> \o UpToQuery(Tail(s))

UrlPath(u) == UpToQuery(Tail(Tail(u)))

\* Two consecutive separators somewhere in s.
HasDoubleSep(s) == \E i \in 1..(Len(s) - 1) : s[i] = Sep /\ s[i + 1] = Sep

\* -------------------------------------------------------------------- JSON
\* serde_json::Value.  Scalars carry their text; an array carries its
\* elements; an object carries its members, <<name, value>>, in the order
\* they are written.  String contents hold no quote, so no escape arises.
JNull == [t |-> "null", v |-> <<"null">>]
JBool(b) == [t |-> "bool", v |-> <<IF b THEN "true" ELSE "false">>]
JNum(digits) == [t |-> "num", v |-> <<digits>>]
JStr(s) == [t |-> "str", v |-> s]
JArr(elems) == [t |-> "arr", v |-> elems]
JObj(members) == [t |-> "obj", v |-> members]

Quote == "\""
NumTokens == {"0", "1", "10"}

\* serde_json::to_vec: the JSON text of a value, as a token sequence.
RECURSIVE ToJson(_), JoinElems(_), JoinMembers(_)
ToJson(d) ==
    CASE d.t = "str" -> <<Quote>> \o d.v \o <<Quote>>
      [] d.t = "arr" -> <<"[">> \o JoinElems(d.v) \o <<"]">>
      [] d.t = "obj" -> <<"{">> \o JoinMembers(d.v) \o <<"}">>
      [] OTHER -> d.v

JoinElems(es) ==
    IF es = <<>> THEN <<>>
    ELSE IF Len(es) = 1 THEN ToJson(es[1])
    ELSE ToJson(es[1]) \o <<",">> \o JoinElems(Tail(es))

JoinMembers(ms) ==
    IF ms = <<>> THEN <<>>
    ELSE LET one == <<Quote, ms[1][1], Quote, ":">> \o ToJson(ms[1][2])
         IN  IF Len(ms) = 1 THEN one ELSE one \o <<",">> \o JoinMembers(Tail(ms))

\* serde_json::from_slice: a recursive-descent parse of the token sequence.
ParseFail == [ok |-> FALSE, val |-> JNull, rest |-> <<>>]
Parsed(val, rest) == [ok |-> TRUE, val |-> val, rest |-> rest]

RECURSIVE ParseChars(_, _), ParseValue(_), ParseElems(_, _), ParseMembers(_, _)
ParseChars(ts, acc) ==
    IF ts = <<>> THEN ParseFail
    ELSE IF Head(ts) = Quote THEN Parsed(acc, Tail(ts))
    ELSE ParseChars(Tail(ts), Append(acc, Head(ts)))

ParseValue(ts) ==
    IF ts = <<>> THEN ParseFail
    ELSE LET h == Head(ts)
             r == Tail(ts)
         IN  CASE h = "null" -> Parsed(JNull, r)
               [] h = "true" -> Parsed(JBool(TRUE), r)
               [] h = "false" -> Parsed(JBool(FALSE), r)
               [] h \in NumTokens -> Parsed(JNum(h), r)
               [] h = Quote ->
                    LET s == ParseChars(r, <<>>)
                    IN  IF s.ok THEN Parsed(JStr(s.val), s.rest) ELSE ParseFail
               [] h = "[" ->
                    IF r # <<>> /\ Head(r) = "]" THEN Parsed(JArr(<<>>), Tail(r))
                    ELSE ParseElems(r, <<>>)
               [] h = "{" ->
                    IF r # <<>> /\ Head(r) = "}" THEN Parsed(JObj(<<>>), Tail(r))
                    ELSE ParseMembers(r, <<>>)
               [] OTHER -> ParseFail

ParseElems(ts, acc) ==
    LET e == ParseValue(ts)
    IN  IF ~e.ok \/ e.rest = <<>> THEN ParseFail
        ELSE IF Head(e.rest) = "," THEN ParseElems(Tail(e.rest), Append(acc, e.val))
        ELSE IF Head(e.rest) = "]" THEN Parsed(JArr(Append(acc, e.val)), Tail(e.rest))
        ELSE ParseFail

ParseMembers(ts, acc) ==
    IF Len(ts) < 4 \/ ts[1] # Quote \/ ts[3] # Quote \/ ts[4] # ":" THEN ParseFail
    ELSE LET m == ParseValue(SubSeq(ts, 5, Len(ts)))
         IN  IF ~m.ok \/ m.rest = <<>> THEN ParseFail
             ELSE LET acc2 == Append(acc, <<ts[2], m.val>>)
                  IN  IF Head(m.rest) = "," THEN ParseMembers(Tail(m.rest), acc2)
                      ELSE IF Head(m.rest) = "}" THEN Parsed(JObj(acc2), Tail(m.rest))
                      ELSE ParseFail

\* Option<Value>: the whole text must be one value.
FromJson(text) ==
    LET p == ParseValue(text)
    IN  IF p.ok /\ p.rest = <<>> THEN Some(p.val) ELSE None

\* Response::json::<T>(): T is Value ("Value") or Vec<Value> ("Vec").
DecodeAs(ty, text) ==
    LET d == FromJson(text)
    IN  IF d = None THEN None
        ELSE IF ty = "Vec" /\ d[1].t # "arr" THEN None
        ELSE d

\* ------------------------------------------------------------ QueryBuilder
SortOrders == {"asc", "desc"}

\* QueryBuilder::new() followed by any chain of setters.
Builders(froms, tos, filters) ==
    [from : {None} \cup {Some(s) : s \in froms},
     to : {None} \cup {Some(s) : s \in tos},
     limit : {None, Some("10")},
     order : {None} \cup {Some(o) : o \in SortOrders},
     keys : BOOLEAN,
     query : {None} \cup {Some(f) : f \in filters}]

OptPair(name, opt) == IF opt = None THEN <<>> ELSE << <<name, opt[1]>> >>

\* #[derive(Serialize)] through serde_urlencoded (RequestBuilder::query): one
\* pair per field in declaration order; a None field writes no pair.
QueryPairs(qb) ==
    OptPair("from", qb.from)
    \o OptPair("to", qb.to)
    \o OptPair("limit", IF qb.limit = None THEN None ELSE Some(<<qb.limit[1]>>))
    \o OptPair("order", IF qb.order = None THEN None ELSE Some(<<qb.order[1]>>))
    \o << <<"keys", <<IF qb.keys THEN "true" ELSE "false">> >> >>
    \o OptPair("query", qb.query)

\* The listing form with the filter left out (#[serde(skip)] on query).
QueryPairsNoFilter(qb) == QueryPairs([qb EXCEPT !.query = None])

\* RequestBuilder::query(&query)
UrlEncoded(qb) == QueryPairs(qb)

\* The builder main assembles for `collection list`: the order is always
\* set, the filter only when it is present and not empty.
CliListBuilder(flags) ==
    [from |-> flags.from, to |-> flags.to, limit |-> flags.limit,
     order |-> flags.order, keys |-> flags.keys,
     query |-> IF flags.query # None /\ flags.query[1] # <<>> THEN flags.query ELSE None]

OptStr(opt) == IF opt = None THEN JNull ELSE JStr(opt[1])

\* #[derive(Serialize)] through serde_json (RequestBuilder::json): every
\* field is a member of the object; a None field is written as null.
JsonMembers(qb) ==
    << <<"from", OptStr(qb.from)>>,
       <<"to", OptStr(qb.to)>>,
       <<"limit", IF qb.limit = None THEN JNull ELSE JNum(qb.limit[1])>>,
       <<"order", IF qb.order = None THEN JNull ELSE JStr(<<qb.order[1]>>)>>,
       <<"keys", JBool(qb.keys)>>,
       <<"query", OptStr(qb.query)>> >>

\* The body form with skip_serializing_if on an absent or empty filter.
JsonMembersSkipEmpty(qb) ==
    LET all == JsonMembers(qb)
    IN  IF qb.query = None \/ qb.query = Some(<<>>) THEN SubSeq(all, 1, 5) ELSE all

BuilderJsonSkipEmpty(qb) == JObj(JsonMembersSkipEmpty(qb))

\* RequestBuilder::json(&query)
BuilderJson(qb) == JObj(JsonMembers(qb))

Names(pairs) == {pairs[i][1] : i \in 1..Len(pairs)}
Member(pairs, name) == {pairs[i][2] : i \in {j \in 1..Len(pairs) : pairs[j][1] = name}}

\* ------------------------------------------------------------------- state
VARIABLES
    endpoint,   \* SmolKv.endpoint
    secret,     \* the X-SECRET-KEY default header of SmolKv.client, an Option
    call,       \* per call site: the facade call it holds and how far it got
    store,      \* the server: request path -> stored JSON text
    lastPut,    \* history: <<collection, key>> -> the value of the last put that
                \* returned Ok, while no later write went to its request path
    cli,        \* the command-line program: its command, how far main got,
                \* what it printed and how it exited
    stream      \* the body of a subscribe response on its way to the consumer

vars == <<endpoint, secret, call, store, lastPut, cli, stream>>

Callers == 1..NumCallers

\* main has not read its command line.
NotStarted ==
    [pc |-> "start", cmd |-> "none", path |-> <<>>, parsed |-> <<>>,
     value |-> JNull, printed |-> <<>>, exit |-> <<>>]

\* No response body is being streamed.
NoStream ==
    [state |-> "none", lines |-> <<>>, wire |-> <<>>]

\* No response yet: status 0 is no status a server sends.
NoResp == [status |-> 0, body |-> <<>>, intact |-> FALSE, url |-> <<>>]

IdleCall ==
    [pc |-> "idle", op |-> "none", args |-> <<>>, req |-> <<>>, nsent |-> 0,
     resp |-> NoResp, result |-> <<>>, reported |-> 0]

\* StatusCode constants matched in the source.
OK == 200
CREATED == 201
BAD_REQUEST == 400
NOT_FOUND == 404
CONFLICT == 409

\* StatusCode::is_success
is_success(status) == 200 <= status /\ status < 300

\* Result<T, Error>
Ok(v) == [kind |-> "Ok", payload |-> v]
Err(kind, payload) == [kind |-> kind, payload |-> payload]
Unit == "()"

\* From<reqwest::Error> for Error (the ? operator): every reqwest error, of
\* whatever inner kind (the request, the body, the decoding), becomes Http.
FromReqwest(inner) == Err("Http", inner)

NoBody == [kind |-> "none"]
JsonBody(doc) == [kind |-> "json", text |-> ToJson(doc)]
Multipart(file_name, bytes) == [kind |-> "multipart", file_name |-> file_name, bytes |-> bytes]

\* A builder that sends the value of an earlier put along with a request
\* that has no body of its own.
RequestWithLastValue(method, u, query, body) ==
    [method |-> method, url |-> u, query |-> query,
     body |-> IF body = NoBody /\ lastPut # <<>>
              THEN JsonBody(lastPut[CHOOSE ck \in DOMAIN lastPut : TRUE])
              ELSE body,
     auth |-> secret]

\* What RequestBuilder::send puts on the wire.
Request(method, u, query, body) ==
    [method |-> method, url |-> u, query |-> query, body |-> body, auth |-> secret]

\* The position after `.send()` was called: one request is on the wire.
Send(c, op, args, req) ==
    /\ call[c].pc = "idle"
    /\ call' = [call EXCEPT ![c] =
                   [pc |-> "sent", op |-> op, args |-> args, req |-> req,
                    nsent |-> @.nsent + 1, resp |-> NoResp, result |-> <<>>,
                    reported |-> 0]]
    /\ UNCHANGED <<cli, stream, endpoint, secret, store>>

\* The position after `.await?` on send failed, or the call's last expression.
Finish(c, result) ==
    call' = [call EXCEPT ![c] =
                [@ EXCEPT !.pc = "done", !.result = result, !.reported = @ + 1]]

\* -------------------------------------------------------------- operations
\* Each action is a facade method up to its `.send()`.  `in` holds the sets
\* the caller's arguments are drawn from.

collection_exists(c, in) ==
    /\ call[c].pc = "idle"
    /\ \E name \in in.colls :
        /\ Send(c, "collection_exists", [name |-> name],
                Request("HEAD", url(endpoint, name), <<>>, NoBody))
        /\ UNCHANGED lastPut

create_collection(c, in) ==
    /\ call[c].pc = "idle"
    /\ \E name \in in.colls :
        /\ Send(c, "create_collection", [name |-> name],
                Request("PUT", url(endpoint, name), <<>>, NoBody))
        /\ UNCHANGED lastPut

drop_collection(c, in) ==
    /\ call[c].pc = "idle"
    /\ \E name \in in.colls :
        /\ Send(c, "drop_collection", [name |-> name],
                Request("DELETE", url(endpoint, <<Sep>> \o name), <<>>, NoBody))
        /\ lastPut' = <<>>

list_collection(c, in) ==
    /\ call[c].pc = "idle"
    /\ \E name \in in.colls, query \in in.builders :
        /\ Send(c, "list_collection", [name |-> name, query |-> query],
                Request("GET", url(endpoint, name), UrlEncoded(query), NoBody))
        /\ UNCHANGED lastPut

query_collection(c, in) ==
    /\ call[c].pc = "idle"
    /\ \E name \in in.colls, query \in in.builders :
        /\ Send(c, "query_collection", [name |-> name, query |-> query],
                Request("POST", url(endpoint, name), <<>>, JsonBody(BuilderJson(query))))
        /\ UNCHANGED lastPut

\* main, Collection List: the builder goes to query_collection.
cli_collection_list(c, in) ==
    /\ call[c].pc = "idle"
    /\ \E name \in in.colls, flags \in {b \in in.builders : b.order # None} :
        /\ Send(c, "query_collection", [name |-> name, query |-> CliListBuilder(flags)],
                Request("POST", url(endpoint, name), <<>>,
                        JsonBody(BuilderJson(CliListBuilder(flags)))))
        /\ UNCHANGED lastPut

\* The history without the puts that went to the request path of (collection, key).
Overwritten(collection, key) ==
    LET p == UrlPath(url(endpoint, KeyPath(collection, key)))
        kept == {ck \in DOMAIN lastPut :
                    UrlPath(url(endpoint, KeyPath(ck[1], ck[2]))) # p}
    IN  [ck \in kept |-> lastPut[ck]]

\* A get that joins collection and key to the base without url().
get_untrimmed(c, in) ==
    /\ call[c].pc = "idle"
    /\ \E collection \in in.colls, key \in in.keys :
        /\ Send(c, "get", [collection |-> collection, key |-> key],
                Request("GET", url_untrimmed(endpoint, KeyPath(collection, key)), <<>>,
                        NoBody))
        /\ UNCHANGED lastPut

\* SmolKv::get, to be decoded as T = Value.
get(c, in) ==
    /\ call[c].pc = "idle"
    /\ \E collection \in in.colls, key \in in.keys :
        /\ Send(c, "get", [collection |-> collection, key |-> key],
                Request("GET", url(endpoint, KeyPath(collection, key)), <<>>, NoBody))
        /\ UNCHANGED lastPut

put(c, in) ==
    /\ call[c].pc = "idle"
    /\ \E collection \in in.colls, key \in in.keys, value \in in.docs :
        /\ Send(c, "put", [collection |-> collection, key |-> key, value |-> value],
                Request("PUT", url(endpoint, KeyPath(collection, key)), <<>>,
                        JsonBody(value)))
        /\ lastPut' = Overwritten(collection, key)

import_values(c, in) ==
    /\ call[c].pc = "idle"
    /\ \E collection \in in.colls, key \in in.fields, values \in in.blobs :
        /\ Send(c, "import_values",
                [collection |-> collection, key |-> key, values |-> values],
                Request("POST", url(endpoint, SubPath(collection, "_import")),
                        OptPair("key", key), Multipart(<<"backup.sst">>, values)))
        /\ lastPut' = <<>>

delete(c, in) ==
    /\ call[c].pc = "idle"
    /\ \E collection \in in.colls, key \in in.keys :
        /\ Send(c, "delete", [collection |-> collection, key |-> key],
                Request("DELETE", url(endpoint, KeyPath(collection, key)), <<>>, NoBody))
        /\ lastPut' = Overwritten(collection, key)

exists(c, in) ==
    /\ call[c].pc = "idle"
    /\ \E collection \in in.colls, key \in in.keys :
        /\ Send(c, "exists", [collection |-> collection, key |-> key],
                Request("HEAD", url(endpoint, KeyPath(collection, key)), <<>>, NoBody))
        /\ UNCHANGED lastPut

\* items: &[BatchOperation<T>], serialized as an array of {key, value}.
BatchJson(items) ==
    JArr([i \in 1..Len(items) |->
             JObj(<< <<"key", JStr(items[i].key)>>, <<"value", items[i].value>> >>)])

batch_put(c, in) ==
    /\ call[c].pc = "idle"
    /\ \E collection \in in.colls, items \in in.batches :
        /\ Send(c, "batch_put", [collection |-> collection, items |-> items],
                Request("PUT", url(endpoint, SubPath(collection, "_batch")), <<>>,
                        JsonBody(BatchJson(items))))
        /\ lastPut' = <<>>

subscribe(c, in) ==
    /\ call[c].pc = "idle"
    /\ \E collection \in in.colls :
        /\ Send(c, "subscribe", [collection |-> collection],
                Request("GET", url(endpoint, SubPath(collection, "_subscribe")), <<>>,
                        NoBody))
        /\ UNCHANGED lastPut

start_backup(c, in) ==
    /\ call[c].pc = "idle"
    /\ \E collection \in in.colls :
        /\ Send(c, "start_backup", [collection |-> collection],
                Request("POST", url(endpoint, SubPath(collection, "_backup")), <<>>,
                        NoBody))
        /\ UNCHANGED lastPut

backup_status(c, in) ==
    /\ call[c].pc = "idle"
    /\ \E collection \in in.colls, id \in in.ids :
        /\ Send(c, "backup_status", [collection |-> collection, id |-> id],
                Request("GET",
                        url(endpoint, collection \o <<Sep, "_backup", Sep, "status", "?id=">> \o id),
                        <<>>, NoBody))
        /\ UNCHANGED lastPut

download_backup(c, in) ==
    /\ call[c].pc = "idle"
    /\ \E collection \in in.colls, backup_id \in in.ids :
        /\ Send(c, "download_backup", [collection |-> collection, backup_id |-> backup_id],
                Request("GET", backup_file_url(endpoint, collection, backup_id), <<>>,
                        NoBody))
        /\ UNCHANGED lastPut

upload_backup(c, in) ==
    /\ call[c].pc = "idle"
    /\ \E collection \in in.colls, backup_data \in in.blobs :
        /\ Send(c, "upload_backup", [collection |-> collection, backup_data |-> backup_data],
                Request("POST",
                        url(endpoint, collection \o <<Sep, "_backup", Sep, "upload">>),
                        <<>>, Multipart(collection \o <<"-backup.sst">>, backup_data)))
        /\ UNCHANGED lastPut

start_restore(c, in) ==
    /\ call[c].pc = "idle"
    /\ \E collection \in in.colls, id \in in.ids :
        /\ Send(c, "start_restore", [collection |-> collection, id |-> id],
                Request("POST",
                        url(endpoint, collection \o <<Sep, "_restore", "?backup_id=">> \o id),
                        <<>>, NoBody))
        /\ lastPut' = <<>>

restore_status(c, in) ==
    /\ call[c].pc = "idle"
    /\ \E collection \in in.colls, id \in in.ids :
        /\ Send(c, "restore_status", [collection |-> collection, id |-> id],
                Request("GET",
                        url(endpoint, collection \o <<Sep, "_restore", Sep, "status", "?id=">> \o id),
                        <<>>, NoBody))
        /\ UNCHANGED lastPut

\* Methods that end in Self::handle_response, with the type they decode to.
HandleOps ==
    {"create_collection", "drop_collection", "list_collection", "query_collection",
     "get", "put", "import_values", "batch_put", "start_backup", "backup_status",
     "upload_backup", "start_restore", "restore_status"}

\* Methods that end in .status().is_success().
BoolOps == {"collection_exists", "delete", "exists"}

\* Result<Vec<Value>> for the two collection reads, Value elsewhere (the
\* command-line caller instantiates get::<Value>).
Expect(op) == IF op \in {"list_collection", "query_collection"} THEN "Vec" ELSE "Value"

\* ----------------------------------------------------------------- network
\* A send that is tried once more before the error is returned.
TransportFailRetry(c) ==
    /\ call[c].pc = "sent"
    /\ IF call[c].nsent < 2
       THEN call' = [call EXCEPT ![c] = [@ EXCEPT !.nsent = @ + 1]]
       ELSE call' = [call EXCEPT ![c] =
                        [@ EXCEPT !.pc = "done", !.result = Err("Http", "send"),
                                  !.reported = @ + 1]]
    /\ UNCHANGED <<cli, stream, endpoint, secret, store, lastPut>>

\* `.send().await?` fails: the reqwest error leaves the method through `?`.
TransportFail(c) ==
    /\ call[c].pc = "sent"
    /\ Finish(c, FromReqwest("send"))
    /\ UNCHANGED <<cli, stream, endpoint, secret, store, lastPut>>

\* A response: the status line and headers have arrived.  `intact` is
\* whether the body can be read to its end; reading a body that is not
\* intact fails with a reqwest error.
Response(status, body, intact, u) ==
    [status |-> status, body |-> body, intact |-> intact, url |-> u]

Statuses == {200, 201, 202, 204, 304, 400, 404, 409, 500}

\* Bodies a server may send: JSON texts, a truncated text, a non-JSON text,
\* the empty body.
Bodies ==
    {ToJson(JNum("1")), ToJson(JArr(<<JNum("1"), JStr(<<"a">>)>>)),
     ToJson(JObj(<< <<"message", JStr(<<"a">>)>> >>)),
     <<"[", "1">>, <<"o", "o", "p", "s">>, <<>>}

\* Any server: `.send().await` yields a response of any status and body.
Respond(c) ==
    /\ call[c].pc = "sent"
    /\ \E status \in Statuses, body \in Bodies, intact \in BOOLEAN :
          /\ intact \/ body = <<>>
          /\ call' = [call EXCEPT ![c] =
                         [@ EXCEPT !.pc = "responded",
                                   !.resp = Response(status, body, intact, call[c].req.url)]]
    /\ UNCHANGED <<cli, stream, endpoint, secret, store, lastPut>>


\* A server that honours the wire contract of the key operations: PUT stores
\* the JSON body under the request path, GET answers 200 with the stored
\* document, DELETE removes it, and an absent path is answered 404.
Ack == ToJson(JObj(<< <<"message", JStr(<<"a">>)>> >>))

ServeKV(c) ==
    /\ call[c].pc = "sent"
    /\ LET r == call[c].req
           p == UrlPath(r.url)
           held == p \in DOMAIN store
           answer(status, body) ==
               call' = [call EXCEPT ![c] =
                           [@ EXCEPT !.pc = "responded",
                                     !.resp = Response(status, body, TRUE, r.url)]]
       IN  CASE r.method = "PUT" /\ r.body.kind = "json" ->
                  /\ store' = (p :> r.body.text) @@ store
                  /\ answer(IF held THEN OK ELSE CREATED, Ack)
             [] r.method = "GET" ->
                  /\ UNCHANGED store
                  /\ IF held THEN answer(OK, store[p]) ELSE answer(NOT_FOUND, <<>>)
             [] r.method = "DELETE" ->
                  /\ store' = [q \in DOMAIN store \ {p} |-> store[q]]
                  /\ IF held THEN answer(OK, Ack) ELSE answer(NOT_FOUND, <<>>)
             [] r.method = "HEAD" ->
                  /\ UNCHANGED store
                  /\ answer(IF held THEN OK ELSE NOT_FOUND, <<>>)
    /\ UNCHANGED <<cli, stream, endpoint, secret, lastPut>>

\* ------------------------------------------------------------- completions
\* An interpreter without the CONFLICT and BAD_REQUEST arms.
HandleResponseFewerArms(resp, ty) ==
    CASE resp.status \in {OK, CREATED} ->
            IF ~resp.intact THEN FromReqwest("body")
            ELSE LET d == DecodeAs(ty, resp.body)
                 IN  IF d = None THEN FromReqwest("decode") ELSE Ok(d[1])
      [] resp.status = NOT_FOUND -> Err("NotFound", UrlPath(resp.url))
      [] OTHER -> Err("Server", <<"unexpected status: ", resp.status>>)

\* An interpreter that decodes the body of every success status.
HandleResponseAnySuccess(resp, ty) ==
    CASE is_success(resp.status) ->
            IF ~resp.intact THEN FromReqwest("body")
            ELSE LET d == DecodeAs(ty, resp.body)
                 IN  IF d = None THEN FromReqwest("decode") ELSE Ok(d[1])
      [] resp.status = NOT_FOUND -> Err("NotFound", UrlPath(resp.url))
      [] resp.status = CONFLICT -> Err("AlreadyExists", UrlPath(resp.url))
      [] resp.status = BAD_REQUEST ->
            IF ~resp.intact THEN FromReqwest("body") ELSE Err("BadRequest", resp.body)
      [] OTHER -> Err("Server", <<"unexpected status: ", resp.status>>)

\* SmolKv::handle_response::<T>
HandleResponse(resp, ty) ==
    CASE resp.status \in {OK, CREATED} ->
            IF ~resp.intact THEN FromReqwest("body")
            ELSE LET d == DecodeAs(ty, resp.body)
                 IN  IF d = None THEN FromReqwest("decode") ELSE Ok(d[1])
      [] resp.status = NOT_FOUND -> Err("NotFound", UrlPath(resp.url))
      [] resp.status = CONFLICT -> Err("AlreadyExists", UrlPath(resp.url))
      [] resp.status = BAD_REQUEST ->
            IF ~resp.intact THEN FromReqwest("body") ELSE Err("BadRequest", resp.body)
      [] OTHER -> Err("Server", <<"unexpected status: ", resp.status>>)

\* The tail of a method that ends in handle_response; batch_put maps Ok to ().
HandleTail(op, resp) ==
    LET r == HandleResponse(resp, Expect(op))
    IN  IF op = "batch_put" /\ r.kind = "Ok" THEN Ok(Unit) ELSE r

handle_response(c) ==
    /\ call[c].pc = "responded"
    /\ call[c].op \in HandleOps
    /\ LET r == HandleTail(call[c].op, call[c].resp)
       IN  /\ Finish(c, r)
           /\ lastPut' = IF call[c].op = "put" /\ r.kind = "Ok"
                         THEN (<<call[c].args.collection, call[c].args.key>>
                                  :> call[c].args.value) @@ lastPut
                         ELSE lastPut
    /\ UNCHANGED <<cli, stream, endpoint, secret, store>>

\* A check that takes only 200 for success.
StatusBoolOnlyOk(resp) == Ok(resp.status = OK)

\* A check that reports an absent resource as the interpreter does.
StatusBoolNotFound(resp) ==
    IF resp.status = NOT_FOUND THEN Err("NotFound", UrlPath(resp.url))
    ELSE Ok(is_success(resp.status))

\* Ok(... .status().is_success()) of collection_exists, delete and exists.
StatusBool(resp) == Ok(is_success(resp.status))

status_is_success(c) ==
    /\ call[c].pc = "responded"
    /\ call[c].op \in BoolOps
    /\ Finish(c, StatusBool(call[c].resp))
    /\ UNCHANGED <<cli, stream, endpoint, secret, store, lastPut>>

\* The match of SmolKv::subscribe: the response itself on 200.
SubscribeMatch(resp, collection) ==
    IF resp.status = OK THEN Ok(resp) ELSE Err("NotFound", collection)

subscribe_status(c) ==
    /\ call[c].pc = "responded"
    /\ call[c].op = "subscribe"
    /\ Finish(c, SubscribeMatch(call[c].resp, call[c].args.collection))
    /\ UNCHANGED <<cli, stream, endpoint, secret, store, lastPut>>

\* The match of SmolKv::download_backup.
DownloadMatch(resp, backup_id) ==
    CASE resp.status = OK ->
            IF resp.intact THEN Ok(resp.body) ELSE FromReqwest("body")
      [] resp.status = NOT_FOUND -> Err("NotFound", backup_id)
      [] OTHER -> Err("Server", <<"unexpected status: ", resp.status>>)

download_status(c) ==
    /\ call[c].pc = "responded"
    /\ call[c].op = "download_backup"
    /\ Finish(c, DownloadMatch(call[c].resp, call[c].args.backup_id))
    /\ UNCHANGED <<cli, stream, endpoint, secret, store, lastPut>>

\* The caller takes the result; the call's future is dropped.
Return(c) ==
    /\ call[c].pc = "done"
    /\ call' = [call EXCEPT ![c] = IdleCall]
    /\ UNCHANGED <<cli, stream, endpoint, secret, store, lastPut>>

\* ---------------------------------------------------------- specifications
\* SmolKv::new(endpoint, secret)
Init ==
    /\ endpoint \in Endpoints
    /\ secret \in {None, Some("s3cret")}
    /\ call = [c \in Callers |-> IdleCall]
    /\ store = <<>>
    /\ lastPut = <<>>
    /\ cli = NotStarted
    /\ stream = NoStream

Solo == {1}

Filters == {<<>>, <<"a">>}

SmallIn ==
    [colls |-> {<<"a">>},
     keys |-> {<<"b">>, <<"b", Sep, "a">>},
     docs |-> {JNum("1")},
     builders |-> Builders({}, {}, Filters),
     ids |-> {<<"7">>},
     fields |-> {None, Some(<<"id">>)},
     blobs |-> {<<"sst-bytes">>},
     batches |-> {<<[key |-> <<"b">>, value |-> JNum("1")]>>}]

Start(c, in) ==
    \/ collection_exists(c, in)
    \/ create_collection(c, in)
    \/ drop_collection(c, in)
    \/ list_collection(c, in)
    \/ query_collection(c, in)
    \/ cli_collection_list(c, in)
    \/ get(c, in)
    \/ put(c, in)
    \/ import_values(c, in)
    \/ delete(c, in)
    \/ exists(c, in)
    \/ batch_put(c, in)
    \/ subscribe(c, in)
    \/ start_backup(c, in)
    \/ backup_status(c, in)
    \/ download_backup(c, in)
    \/ upload_backup(c, in)
    \/ start_restore(c, in)
    \/ restore_status(c, in)

Complete(c) ==
    \/ handle_response(c)
    \/ status_is_success(c)
    \/ subscribe_status(c)
    \/ download_status(c)
    \/ Return(c)

\* One call site against any server and a network that may fail.
Next ==
    \E c \in Solo :
        \/ Start(c, SmallIn)
        \/ TransportFail(c)
        \/ Respond(c)
        \/ Complete(c)

Spec == Init /\ [][Next]_vars

\* The requests the facade builds, for every argument up to MaxLen, with the
\* network down: every send fails.
WideIn ==
    [colls |-> Strings,
     keys |-> Strings,
     docs |-> {JNum("1")},
     builders |-> Builders({<<"a">>}, {<<"b">>}, Filters),
     ids |-> {<<"7">>},
     fields |-> {None, Some(<<"id">>)},
     blobs |-> {<<"sst-bytes">>},
     batches |-> {<<[key |-> <<"b">>, value |-> JNum("1")]>>}]

NextRequest ==
    \E c \in Solo :
        \/ Start(c, WideIn)
        \/ TransportFail(c)
        \/ Return(c)

SpecRequest == Init /\ [][NextRequest]_vars

\* The key operations of one call site against the server of ServeKV, over
\* a network that delivers.
Scalars == {JNull, JBool(TRUE), JNum("1"), JStr(<<"a", Sep>>)}

RECURSIVE ArraysUpTo(_)
ArraysUpTo(n) ==
    IF n = 0 THEN {<<>>}
    ELSE LET shorter == ArraysUpTo(n - 1)
         IN  shorter \cup {Append(a, e) : a \in shorter, e \in {JNum("0"), JStr(<<>>)}}

Docs ==
    Scalars
    \cup {JArr(a) : a \in ArraysUpTo(MaxElems)}
    \cup {JArr(<<JArr(<<>>)>>), JObj(<< <<"a", JNum("10")>> >>)}

KVIn ==
    [colls |-> {<<"a">>, <<Sep, "a">>},
     keys |-> {<<"b">>, <<"b", Sep, "a">>},
     docs |-> Docs]

NextKV ==
    \E c \in Solo :
        \/ put(c, KVIn)
        \/ get(c, KVIn)
        \/ delete(c, KVIn)
        \/ exists(c, KVIn)
        \/ ServeKV(c)
        \/ handle_response(c)
        \/ status_is_success(c)
        \/ Return(c)

SpecKV == Init /\ [][NextKV]_vars

\* Clones of one facade used by concurrent callers, their calls interleaved
\* at every await point.
SharedIn ==
    [colls |-> {<<"a">>},
     keys |-> {<<"b">>},
     docs |-> {JNum("1")}]

NextShared ==
    \E c \in Callers :
        \/ put(c, SharedIn)
        \/ get(c, SharedIn)
        \/ delete(c, SharedIn)
        \/ ServeKV(c)
        \/ TransportFail(c)
        \/ handle_response(c)
        \/ status_is_success(c)
        \/ Return(c)

SpecShared == Init /\ [][NextShared]_vars

\* ----------------------------------------------------- command-line program
\* examples/cli.rs: main runs one command and exits.  Its facade calls are
\* those of call site Main.
Main == 1

RECURSIVE split(_)
\* str::split('/')
split(s) ==
    IF \A i \in 1..Len(s) : s[i] # Sep THEN <<s>>
    ELSE LET i == CHOOSE k \in 1..Len(s) :
                      s[k] = Sep /\ \A j \in 1..(k - 1) : s[j] # Sep
         IN  <<SubSeq(s, 1, i - 1)>> \o split(SubSeq(s, i + 1, Len(s)))

RECURSIVE join(_)
\* [&str]::join("/")
join(parts) ==
    IF parts = <<>> THEN <<>>
    ELSE IF Len(parts) = 1 THEN parts[1]
    ELSE parts[1] \o <<Sep>> \o join(Tail(parts))

\* A parser that takes the second segment for the key.
parse_key_path_second_segment(path) ==
    LET parts == split(path)
    IN  IF Len(parts) = 1
        THEN Err("BadRequest", <<"Invalid path format. Use <collection>/<key>">>)
        ELSE Ok(<<parts[1], parts[2]>>)

parse_key_path(path) ==
    LET parts == split(path)
    IN  CASE Len(parts) = 1 ->
                Err("BadRequest", <<"Invalid path format. Use <collection>/<key>">>)
          [] Len(parts) = 2 -> Ok(<<parts[1], parts[2]>>)
          [] OTHER -> Ok(<<parts[1], join(Tail(parts))>>)

Paths == StrUpTo(MaxPath)

ValueTexts == {ToJson(JNum("1")), <<"[">>}

\* The arguments of the facade call, from the parsed path.
ParsedIn ==
    [colls |-> {cli.parsed.payload[1]},
     keys |-> {cli.parsed.payload[2]},
     docs |-> {cli.value}]

\* `parse_key_path(path)?`: main returns the error, or goes on to the call.
ParsePath(cmd, path) ==
    LET r == parse_key_path(path)
        read == [cli EXCEPT !.cmd = cmd, !.path = path, !.parsed = r]
    IN  IF r.kind = "Ok" THEN [read EXCEPT !.pc = "parsed"]
        ELSE [read EXCEPT !.pc = "exited", !.exit = r]

\* Commands::Put, up to the call of kv.put
cli_put_parse ==
    /\ cli.pc = "start"
    /\ \E path \in Paths, value \in ValueTexts :
        LET p == ParsePath("put", path)
            v == FromJson(value)
        IN  cli' = IF p.pc = "parsed" /\ v = None
                   THEN [p EXCEPT !.pc = "exited",
                                  !.exit = Err("BadRequest", <<"Invalid JSON value: ">>)]
                   ELSE IF p.pc = "parsed" THEN [p EXCEPT !.value = v[1]]
                   ELSE p
    /\ UNCHANGED <<endpoint, secret, call, store, lastPut, stream>>

cli_put ==
    /\ cli.pc = "parsed" /\ cli.cmd = "put"
    /\ put(Main, ParsedIn)

\* Commands::Get
cli_get_parse ==
    /\ cli.pc = "start"
    /\ \E path \in Paths : cli' = ParsePath("get", path)
    /\ UNCHANGED <<endpoint, secret, call, store, lastPut, stream>>

cli_get ==
    /\ cli.pc = "parsed" /\ cli.cmd = "get"
    /\ get(Main, ParsedIn)

\* Commands::Del
cli_del_parse ==
    /\ cli.pc = "start"
    /\ \E path \in Paths : cli' = ParsePath("del", path)
    /\ UNCHANGED <<endpoint, secret, call, store, lastPut, stream>>

cli_del ==
    /\ cli.pc = "parsed" /\ cli.cmd = "del"
    /\ delete(Main, ParsedIn)

\* `.await?` on the call, then "Print the result": main returns the call's
\* error, or prints the result and returns Ok.
cli_print ==
    /\ cli.pc = "parsed"
    /\ call[Main].pc = "done"
    /\ LET r == call[Main].result
       IN  cli' = [cli EXCEPT
                      !.pc = "exited",
                      !.exit = IF r.kind = "Ok" /\ cli.cmd = "del"
                               THEN Ok([path |-> cli.path, deleted |-> r.payload])
                               ELSE r]
    /\ UNCHANGED <<endpoint, secret, call, store, lastPut, stream>>

NextCli ==
    \/ cli_put_parse
    \/ cli_put
    \/ cli_get_parse
    \/ cli_get
    \/ cli_del_parse
    \/ cli_del
    \/ ServeKV(Main)
    \/ TransportFail(Main)
    \/ handle_response(Main)
    \/ status_is_success(Main)
    \/ cli_print

SpecCli == Init /\ [][NextCli]_vars

\* ------------------------------------------------------------- change feed
\* CollectionSubcommands::Watch.  The feed is text, a sequence of lines each
\* ended by Newline; the transport hands it over in chunks of its choosing.
Newline == "\n"
DataPrefix == "data: "
Whitespace == {" ", Newline, "\t", "\r"}

DataLine(doc) == <<DataPrefix>> \o ToJson(doc) \o <<Newline>>

LineKinds ==
    {DataLine(JNum("1")), DataLine(JBool(TRUE)),
     <<"ping", Newline>>, <<DataPrefix, "[", Newline>>}

RECURSIVE FeedsUpTo(_)
FeedsUpTo(n) ==
    IF n = 0 THEN {<<>>}
    ELSE LET shorter == FeedsUpTo(n - 1)
         IN  shorter \cup {Append(f, l) : f \in shorter, l \in LineKinds}

RECURSIVE Flatten(_)
Flatten(lines) ==
    IF lines = <<>> THEN <<>> ELSE Head(lines) \o Flatten(Tail(lines))

\* The server answers a subscribe request: 200 and a feed, or no such
\* collection.
ServeFeed(c) ==
    /\ call[c].pc = "sent"
    /\ call[c].op = "subscribe"
    /\ \E status \in {OK, NOT_FOUND}, lines \in FeedsUpTo(MaxLines) :
        /\ status = NOT_FOUND => lines = <<>>
        /\ call' = [call EXCEPT ![c] =
                       [@ EXCEPT !.pc = "responded",
                                 !.resp = Response(status, <<>>, TRUE, call[c].req.url)]]
        /\ stream' = IF status = OK
                     THEN [state |-> "open", lines |-> lines, wire |-> Flatten(lines)]
                     ELSE stream
    /\ UNCHANGED <<cli, endpoint, secret, store, lastPut>>

\* String::from_utf8_lossy: a byte that is not UTF-8 becomes U+FFFD.
InvalidBytes == {"0xFF"}
from_utf8_lossy(bytes) ==
    [i \in DOMAIN bytes |-> IF bytes[i] \in InvalidBytes THEN "U+FFFD" ELSE bytes[i]]

\* str::strip_prefix("data: ")
strip_prefix(text) ==
    IF text # <<>> /\ Head(text) = DataPrefix THEN Some(Tail(text)) ELSE None

RECURSIVE SkipWhitespace(_)
SkipWhitespace(ts) ==
    IF ts # <<>> /\ Head(ts) \in Whitespace THEN SkipWhitespace(Tail(ts)) ELSE ts

\* serde_json::from_str::<Value>: one value, whitespace around it allowed,
\* anything else after it is an error.
from_str(text) ==
    LET p == ParseValue(SkipWhitespace(text))
    IN  IF p.ok /\ SkipWhitespace(p.rest) = <<>> THEN Some(p.val) ELSE None

StreamError == [t |-> "Stream error", v |-> <<>>]

\* The body of `while let Some(chunk) = stream.next().await`: w is main's
\* state, chunk the item the stream yielded.
watch_body(w, chunk) ==
    IF chunk.kind # "Ok" THEN [w EXCEPT !.printed = Append(@, StreamError)]
    ELSE LET data == strip_prefix(from_utf8_lossy(chunk.payload))
             event == IF data = None THEN None ELSE from_str(data[1])
         IN  IF event # None THEN [w EXCEPT !.printed = Append(@, event[1])]
             ELSE w

WatchIn == [colls |-> {<<"a">>}]

\* `kv.subscribe(name)`
cli_watch ==
    /\ cli.pc = "start"
    /\ subscribe(Main, WatchIn)

\* `.await?` on subscribe, then `resp.bytes_stream()`
watch_open ==
    /\ cli.pc = "start"
    /\ call[Main].pc = "done" /\ call[Main].op = "subscribe"
    /\ LET r == call[Main].result
           w == [cli EXCEPT !.cmd = "watch", !.path = call[Main].args.collection]
       IN  cli' = IF r.kind = "Ok" THEN [w EXCEPT !.pc = "watching"]
                  ELSE [w EXCEPT !.pc = "exited", !.exit = r]
    /\ UNCHANGED <<endpoint, secret, call, store, lastPut, stream>>

\* The stream yields Some(Ok(bytes)): the next bytes of the feed, as many as
\* the transport has read.
watch_chunk ==
    /\ cli.pc = "watching"
    /\ stream.state = "open"
    /\ \E n \in 1..Len(stream.wire) :
        /\ cli' = watch_body(cli, Ok(SubSeq(stream.wire, 1, n)))
        /\ stream' = [stream EXCEPT !.wire = SubSeq(@, n + 1, Len(@))]
    /\ UNCHANGED <<endpoint, secret, call, store, lastPut>>

\* The stream yields Some(Err(e)): the connection failed, what was not yet
\* read is lost.
watch_error ==
    /\ cli.pc = "watching"
    /\ stream.state = "open"
    /\ cli' = watch_body(cli, Err("Http", "body"))
    /\ stream' = [stream EXCEPT !.state = "broken", !.wire = <<>>]
    /\ UNCHANGED <<endpoint, secret, call, store, lastPut>>

\* The stream yields None, after the server closed the connection or after
\* the connection failed: the loop ends and main prints its last message.
watch_end ==
    /\ cli.pc = "watching"
    /\ \/ stream.state = "open" /\ stream.wire = <<>>
       \/ stream.state = "broken"
    /\ cli' = [cli EXCEPT
                  !.pc = "exited",
                  !.exit = Ok(JObj(<< <<"message",
                                        JStr(<<"streaming connection closed">>)>> >>))]
    /\ stream' = [stream EXCEPT !.state = IF @ = "open" THEN "ended" ELSE @]
    /\ UNCHANGED <<endpoint, secret, call, store, lastPut>>

NextWatch ==
    \/ cli_watch
    \/ ServeFeed(Main)
    \/ TransportFail(Main)
    \/ subscribe_status(Main)
    \/ watch_open
    \/ watch_chunk
    \/ watch_error
    \/ watch_end

SpecWatch == Init /\ [][NextWatch]_vars

\* ------------------------------------------------------------------ claims
Done(c) == call[c].pc = "done"
Answered(c) == call[c].resp.status # 0
StatusErrors == {"NotFound", "AlreadyExists", "BadRequest", "Server"}

\* C1: every completed response handed to handle_response, at each of its
\* thirteen call sites, is mapped by one table: 200 or 201 with a decodable
\* body gives Ok of the decoded value, 404 NotFound, 409 AlreadyExists, 400
\* BadRequest carrying the body text, every other non-2xx status Server.
C1_StatusTable ==
    \A c \in Callers :
        (Done(c) /\ call[c].op \in HandleOps /\ Answered(c) /\ call[c].resp.intact) =>
            LET st == call[c].resp.status
                r == call[c].result
                d == DecodeAs(Expect(call[c].op), call[c].resp.body)
            IN  /\ (st \in {200, 201} /\ d # None) =>
                      /\ r.kind = "Ok"
                      /\ r.payload = IF call[c].op = "batch_put" THEN Unit ELSE d[1]
                /\ st = 404 => r.kind = "NotFound"
                /\ st = 409 => r.kind = "AlreadyExists"
                /\ st = 400 => (r.kind = "BadRequest" /\ r.payload = call[c].resp.body)
                /\ (st \notin {400, 404, 409} /\ (st < 200 \/ st > 299)) => r.kind = "Server"

C1_Witness ==
    \E c \in Callers :
        /\ Done(c) /\ call[c].op = "query_collection"
        /\ call[c].resp.status = 400 /\ call[c].resp.body # <<>>
        /\ call[c].result = Err("BadRequest", call[c].resp.body)

\* C2: a 200 or 201 response whose body cannot be decoded as the expected
\* type gives the Decode kind (Error::Json), a kind other than the Transport
\* kind (Error::Http) of a failed network call, and never a success.
C2_DecodeKind ==
    \A c \in Callers :
        (/\ Done(c) /\ call[c].op \in HandleOps /\ call[c].resp.intact
         /\ call[c].resp.status \in {200, 201}
         /\ DecodeAs(Expect(call[c].op), call[c].resp.body) = None) =>
            /\ call[c].result.kind = "Json"
            /\ call[c].result.kind # FromReqwest("send").kind

\* C3, as stated: collection_exists and exists never return an error: for
\* every outcome of the HEAD request the result is Ok(true) on a success
\* status and Ok(false) otherwise.
C3_NeverAnError ==
    \A c \in Callers :
        (Done(c) /\ call[c].op \in {"collection_exists", "exists"}) =>
            /\ call[c].result.kind = "Ok"
            /\ call[c].result.payload = (call[c].resp.status \in 200..299)

\* C3, amended: for every response to the HEAD request the result is
\* Ok(true) on a 2xx status and Ok(false) on any other status, never a
\* status-derived error; when the request itself fails the result is the
\* Transport kind.
C3_BoolPerStatus ==
    \A c \in Callers :
        (Done(c) /\ call[c].op \in {"collection_exists", "exists"}) =>
            /\ Answered(c) => call[c].result = Ok(call[c].resp.status \in 200..299)
            /\ ~Answered(c) => call[c].result.kind = "Http"

C3_Witness ==
    \E c \in Callers :
        /\ Done(c) /\ call[c].op = "collection_exists"
        /\ call[c].resp.status = 500
        /\ call[c].result = Ok(FALSE)

\* C4: delete maps every response status to a boolean, Ok(true) on a success
\* status and Ok(false) on every other one (404, 400, 409, 5xx), and never
\* returns NotFound, AlreadyExists, BadRequest or Server.
C4_DeleteIsBoolean ==
    \A c \in Callers :
        (Done(c) /\ call[c].op = "delete") =>
            /\ Answered(c) => call[c].result = Ok(call[c].resp.status \in 200..299)
            /\ call[c].result.kind \notin StatusErrors

C4_Witness ==
    \E c \in Callers :
        /\ Done(c) /\ call[c].op = "delete"
        /\ call[c].resp.status = 404
        /\ call[c].result = Ok(FALSE)

\* C5: against a server that honours the wire contract, put(collection, key,
\* value) followed by get(collection, key), with no write to that request
\* path in between, returns Ok of a value structurally equal to the one
\* stored; keys may hold path separators.
C5_PutGetRoundTrip ==
    \A c \in Callers :
        (/\ Done(c) /\ call[c].op = "get"
         /\ <<call[c].args.collection, call[c].args.key>> \in DOMAIN lastPut) =>
            call[c].result = Ok(lastPut[<<call[c].args.collection, call[c].args.key>>])

C5_Witness ==
    \E c \in Callers :
        /\ Done(c) /\ call[c].op = "get"
        /\ call[c].args = [collection |-> <<Sep, "a">>, key |-> <<"b", Sep, "a">>]
        /\ <<call[c].args.collection, call[c].args.key>> \in DOMAIN lastPut
        /\ call[c].result = Ok(JArr(<<JStr(<<>>)>>))

\* C6: a facade call puts exactly one request on the wire whatever its
\* outcome (a transport failure, an error status, a decode failure), and
\* reports exactly one outcome.
C6_OneRequestPerCall ==
    \A c \in Callers :
        /\ call[c].pc = "idle" => (call[c].nsent = 0 /\ call[c].reported = 0)
        /\ call[c].pc \in {"sent", "responded"} =>
              (call[c].nsent = 1 /\ call[c].reported = 0)
        /\ Done(c) => (call[c].nsent = 1 /\ call[c].reported = 1)

C6_Witness ==
    \E c \in Callers :
        /\ Done(c) /\ call[c].op = "get"
        /\ call[c].result = FromReqwest("decode")
        /\ call[c].nsent = 1

Busy(c) == call[c].pc # "idle"
ApiPrefix == <<Sep, "api", Sep>>

\* The path string a method hands to url().
PathArg(c) ==
    LET a == call[c].args
    IN  CASE call[c].op \in {"collection_exists", "create_collection", "list_collection",
                             "query_collection"} -> a.name
          [] call[c].op \in {"get", "put", "delete", "exists"} ->
                a.collection \o <<Sep>> \o a.key
PathOps ==
    {"collection_exists", "create_collection", "list_collection", "query_collection",
     "get", "put", "delete", "exists"}

\* u is prefix followed by path with its leading separators, and nothing
\* else, removed.
JoinsStripped(u, prefix, path) ==
    \E k \in 0..Len(path) :
        /\ \A i \in 1..k : path[i] = Sep
        /\ k < Len(path) => path[k + 1] # Sep
        /\ u = prefix \o SubSeq(path, k + 1, Len(path))

\* C7: the URL of a request is base + "/api/" + the path with its leading
\* separators removed, so "/foo" and "foo" give one URL, and create_collection,
\* drop_collection and collection_exists of one name target one URL.
C7_UrlRule ==
    \A c \in Callers :
        /\ (Busy(c) /\ call[c].op \in PathOps) =>
              JoinsStripped(call[c].req.url, endpoint \o ApiPrefix, PathArg(c))
        /\ (Busy(c) /\ call[c].op \in {"create_collection", "drop_collection",
                                       "collection_exists"}) =>
              JoinsStripped(call[c].req.url, endpoint \o ApiPrefix, call[c].args.name)

C7_Witness ==
    \E c \in Callers :
        /\ Busy(c) /\ call[c].op = "drop_collection"
        /\ call[c].args.name = <<Sep, "a">>
        /\ call[c].req.url = endpoint \o <<Sep, "api", Sep, "a">>

\* Methods whose URL comes from SmolKv::url (download_backup builds its own).
UrlOps == HandleOps \cup BoolOps \cup {"subscribe"}

\* C8, as stated: the URL never holds two consecutive separators after the
\* scheme, for every endpoint (one ending in "/" too) and every path,
\* collection name and key (empty ones and ones holding "//" too).
C8_NoDoubleSeparator ==
    \A c \in Callers :
        (Busy(c) /\ call[c].op \in UrlOps) => ~HasDoubleSep(Tail(call[c].req.url))

\* C8, amended: the URL never holds a separator directly after the "/api/"
\* the facade inserts, whatever endpoint, path, collection name and key are
\* passed; separators of the endpoint and of the rest of the path are copied
\* as they are.
C8_NoSeparatorAfterApi ==
    \A c \in Callers :
        (Busy(c) /\ call[c].op \in UrlOps) =>
            LET u == call[c].req.url
                n == Len(endpoint) + Len(ApiPrefix)
            IN  /\ SubSeq(u, 1, n) = endpoint \o ApiPrefix
                /\ Len(u) > n => u[n + 1] # Sep

C8_Witness ==
    \E c \in Callers :
        /\ Busy(c) /\ call[c].op = "get"
        /\ call[c].args.collection = <<>> /\ call[c].args.key = <<Sep, "a">>
        /\ call[c].req.url = endpoint \o <<Sep, "api", Sep, "a">>

ListingNames == {"from", "to", "limit", "order", "keys"}

\* C9, as stated: the listing request never carries the filter: whether the
\* builder's query is absent, empty or an expression, the URL query string
\* holds only from, to, limit, order and keys.
C9_ListingOmitsFilter ==
    \A c \in Callers :
        (Busy(c) /\ call[c].op = "list_collection") =>
            Names(call[c].req.query) \subseteq ListingNames

\* C9, amended: the listing request carries the filter exactly when the
\* builder's query field is set: absent, the URL query string holds only
\* from, to, limit, order and keys; set to any string, the empty one too, it
\* also holds query with that string.
C9_ListingCarriesSetFilter ==
    \A c \in Callers :
        (Busy(c) /\ call[c].op = "list_collection") =>
            LET q == call[c].args.query.query
                pairs == call[c].req.query
            IN  /\ Names(pairs) \subseteq ListingNames \cup {"query"}
                /\ q = None => "query" \notin Names(pairs)
                /\ q # None => Member(pairs, "query") = {q[1]}
                /\ call[c].req.body = NoBody

C9_Witness ==
    \E c \in Callers :
        /\ Busy(c) /\ call[c].op = "list_collection"
        /\ call[c].args.query.query = Some(<<>>)
        /\ <<"query", <<>>>> \in {call[c].req.query[i] : i \in 1..Len(call[c].req.query)}

\* The members of the JSON object a request body holds, read off the wire.
BodyMembers(c) ==
    LET d == FromJson(call[c].req.body.text)
    IN  IF d # None /\ d[1].t = "obj" THEN d[1].v ELSE <<>>

\* C10, as stated: the body of query_collection has a query field if and
\* only if the builder holds a non-empty filter: none when the query is
\* absent or the empty string, the expression otherwise.
C10_QueryFieldIffNonEmpty ==
    \A c \in Callers :
        (Busy(c) /\ call[c].op = "query_collection") =>
            LET q == call[c].args.query.query
                holds == q # None /\ q[1] # <<>>
            IN  /\ "query" \in Names(BodyMembers(c)) <=> holds
                /\ holds => Member(BodyMembers(c), "query") = {JStr(q[1])}

\* C10, amended: the body of query_collection always has a query field: null
\* when the builder's query is absent, the builder's string (the empty one
\* too) when it is set; so the field holds a non-empty expression if and only
\* if the builder does.
C10_QueryFieldAlwaysPresent ==
    \A c \in Callers :
        (Busy(c) /\ call[c].op = "query_collection") =>
            LET q == call[c].args.query.query
            IN  /\ call[c].req.body.kind = "json"
                /\ Member(BodyMembers(c), "query") = {IF q = None THEN JNull ELSE JStr(q[1])}

C10_Witness ==
    \E c \in Callers :
        /\ Busy(c) /\ call[c].op = "query_collection"
        /\ call[c].args.query.query = None
        /\ Member(BodyMembers(c), "query") = {JNull}

Interpreted(c) ==
    Done(c) /\ Answered(c) /\ call[c].op \in HandleOps \cup {"download_backup"}

\* C13, as stated: Server is produced only for non-2xx statuses: no response
\* with a 2xx status (200, 201, 202, 204) handled by handle_response or by
\* download_backup yields Server, and the payload of Server carries the
\* status code.
C13_ServerOnlyNon2xx ==
    \A c \in Callers :
        (Interpreted(c) /\ call[c].result.kind = "Server") =>
            /\ call[c].resp.status \notin 200..299
            /\ call[c].result.payload[2] = call[c].resp.status

\* C13, amended: Server is produced exactly for the statuses the match has no
\* arm for: every status but 200, 201, 400, 404 and 409 in handle_response,
\* every status but 200 and 404 in download_backup; these include the 2xx
\* statuses 202 and 204 (and 201 for download_backup).  Its payload is the
\* text "unexpected status: " followed by the status.
C13_ServerForUnmatchedStatus ==
    \A c \in Callers :
        Interpreted(c) =>
            LET st == call[c].resp.status
                named == IF call[c].op = "download_backup" THEN {200, 404}
                         ELSE {200, 201, 400, 404, 409}
            IN  /\ call[c].result.kind = "Server" <=> st \notin named
                /\ call[c].result.kind = "Server" =>
                      call[c].result.payload = <<"unexpected status: ", st>>

C13_Witness ==
    \E c \in Callers :
        /\ Done(c) /\ call[c].op = "drop_collection"
        /\ call[c].resp.status = 204
        /\ call[c].result = Err("Server", <<"unexpected status: ", 204>>)

\* C14: whatever calls concurrent callers make on a shared facade, and however
\* they interleave, the endpoint and the authentication setting never change,
\* and the request a call builds is the one every other call in progress
\* with the same operation and arguments built, whenever that one was started
\* and whatever was stored, read or deleted in between: the request depends
\* on the endpoint and the call's own arguments only.
C14_FacadeKeepsNoCallState ==
    [][/\ endpoint' = endpoint
       /\ secret' = secret
       /\ \A c \in Callers :
            (call[c].pc = "idle" /\ call'[c].pc = "sent") =>
                \A d \in Callers \ {c} :
                    (Busy(d) /\ call[d].op = call'[c].op
                             /\ call[d].args = call'[c].args) =>
                        call'[c].req = call[d].req]_vars

C14_Witness ==
    \E c, d \in Callers :
        /\ c # d
        /\ call[c].pc = "sent" /\ call[c].op = "get"
        /\ call[d].pc = "done" /\ call[d].op = "get" /\ call[d].args = call[c].args
        /\ call[d].result.kind = "NotFound"
        /\ call[c].req = call[d].req
        /\ store # <<>> /\ lastPut # <<>>

HasSep(path) == \E i \in 1..Len(path) : path[i] = Sep

\* C12: a path with at least one separator parses to the first segment as the
\* collection and the remaining segments, joined with the separator, as the
\* key, so that collection, separator and key together are the path, and the
\* facade call is made with these two; a path without a separator is
\* rejected as malformed and main exits without a call.
C12_ParseKeyPath ==
    cli.cmd \in {"put", "get", "del"} =>
        LET r == cli.parsed
        IN  IF HasSep(cli.path)
            THEN /\ r.kind = "Ok"
                 /\ r.payload[1] \o <<Sep>> \o r.payload[2] = cli.path
                 /\ ~HasSep(r.payload[1])
                 /\ Busy(Main) =>
                       /\ call[Main].args.collection = r.payload[1]
                       /\ call[Main].args.key = r.payload[2]
            ELSE /\ r.kind = "BadRequest"
                 /\ cli.pc = "exited" /\ cli.exit = r
                 /\ ~Busy(Main)

C12_Witness ==
    /\ cli.cmd = "get" /\ cli.path = <<"a", Sep, "b", Sep, "a">>
    /\ call[Main].pc = "sent"
    /\ call[Main].args.collection = <<"a">>
    /\ call[Main].args.key = <<"b", Sep, "a">>

RECURSIVE LineEvents(_)
\* The events of the well-formed data lines of a feed, in order.
LineEvents(lines) ==
    IF lines = <<>> THEN <<>>
    ELSE LET l == Head(lines)
             e == IF l[1] = DataPrefix
                  THEN FromJson(SubSeq(l, 2, Len(l) - 1)) ELSE None
         IN  (IF e = None THEN <<>> ELSE <<e[1]>>) \o LineEvents(Tail(lines))

IsSuffix(t, q) ==
    Len(t) <= Len(q) /\ SubSeq(q, Len(q) - Len(t) + 1, Len(q)) = t

\* C11, as stated: a line of the feed that lacks the data prefix, or whose
\* remainder is not valid JSON, does not end consumption, and every
\* well-formed line arriving after it is still delivered: consumption ends
\* only when the connection was closed or failed, and when the feed has been
\* read to its end the events of the well-formed lines after any malformed
\* line are the last ones printed.
C11_MalformedLineSkipped ==
    /\ (cli.cmd = "watch" /\ cli.pc = "exited" /\ cli.exit.kind = "Ok") =>
          stream.state \in {"ended", "broken"}
    /\ (cli.cmd = "watch" /\ stream.state = "ended") =>
          \A i \in 1..Len(stream.lines) :
              LineEvents(<<stream.lines[i]>>) = <<>> =>
                  IsSuffix(LineEvents(SubSeq(stream.lines, i + 1, Len(stream.lines))),
                           cli.printed)

\* C15, as stated: every line of the feed that begins with the data prefix
\* and whose remainder is valid JSON yields exactly one event, in arrival
\* order, however the transport cuts the bytes into chunks: when the feed
\* has been read to its end, the events printed are those of its well-formed
\* lines.
C15_OneEventPerDataLine ==
    (cli.cmd = "watch" /\ cli.pc = "exited" /\ stream.state = "ended") =>
        cli.printed = LineEvents(stream.lines)

====
